---- MODULE Spec2Model ----
(***************************************************************************)
(* Model of src/FactoryOps/Manufacturing_Science/littleslaw/Py00001.py:    *)
(* class LittlesLaw, a namespace of seven static formula operations that   *)
(* share the private validator _validate_input.                            *)
(*                                                                         *)
(* A call is modelled statement by statement: pc names the source line     *)
(* that runs next ("L32" is line 32 of Py00001.py).  Python values are     *)
(* records [t, k, n]: t is type(value).__name__, k tells a finite number   *)
(* from inf / nan / a non-number, n is the integer (int, bool), the number *)
(* of float units (float, one unit = 1/Scale) or the text of a str.        *)
(* float is a binary floating-point format with round-to-nearest-even, as  *)
(* IEEE-754 binary64 is, scaled down to MantBits significant bits.         *)
(***************************************************************************)
EXTENDS Integers, Sequences, FiniteSets, TLC

\* ---------------------------------------------------------------- bounds
MantBits == 5        \* significant bits of a float (53 in binary64)
FracBits == 2        \* the smallest positive float is 1 / 2^FracBits
ExpRange == 7        \* number of binades above the lowest one
MaxInt == 3          \* int arguments range over -1 .. MaxInt
MaxFloatUnits == 20  \* finite float arguments range over -1 .. MaxFloatUnits units

RECURSIVE Pow2(_)
Pow2(k) == IF k <= 0 THEN 1 ELSE 2 * Pow2(k - 1)

Scale == Pow2(FracBits)
MaxUnits == (Pow2(MantBits) - 1) * Pow2(ExpRange)
MinNormalUnits == Pow2(MantBits - 1)

\* ---------------------------------------------------------- Python values
PyInt(i) == [t |-> "int", k |-> "fin", n |-> i]
PyBool(b) == [t |-> "bool", k |-> "fin", n |-> IF b THEN 1 ELSE 0]
PyFloat(u) == [t |-> "float", k |-> "fin", n |-> u]
PyInf(s) == [t |-> "float", k |-> "inf", n |-> s]
PyNaN == [t |-> "float", k |-> "nan", n |-> 0]
PyStrLit(i) == [t |-> "str", k |-> "obj", n |-> i]
PyNone == [t |-> "NoneType", k |-> "obj", n |-> 0]
Undef == [t |-> "undefined", k |-> "obj", n |-> 0]
Raises(kind) == [t |-> "raise", k |-> kind, n |-> 0]

Values ==
    {PyInt(i) : i \in -1..MaxInt}
      \cup {PyBool(TRUE), PyBool(FALSE)}
      \cup {PyFloat(u) : u \in -1..MaxFloatUnits}
      \cup {PyFloat(MaxUnits), PyInf(1), PyInf(-1), PyNaN}
      \cup {PyStrLit(2), PyNone}

\* isinstance(value, (int, float)): bool is a subclass of int
IsInstanceIntFloat(v) == v.t \in {"int", "bool", "float"}
\* isinstance(value, int)
IsInstanceInt(v) == v.t \in {"int", "bool"}

\* the number a finite int / bool / float denotes, in float units
Units(v) == IF v.t = "float" THEN v.n ELSE v.n * Scale

\* value < 0
LtZero(v) == IF v.k = "fin" THEN Units(v) < 0 ELSE v.k = "inf" /\ v.n < 0
\* value <= 0
LeZero(v) == IF v.k = "fin" THEN Units(v) <= 0 ELSE v.k = "inf" /\ v.n < 0
\* value == 0
EqZero(v) == v.k = "fin" /\ Units(v) = 0
\* value > 1.0
GtOne(v) == IF v.k = "fin" THEN Units(v) > Scale ELSE v.k = "inf" /\ v.n > 0

\* ------------------------------------------------------- float arithmetic
RECURSIVE Quantum(_, _, _)
\* the spacing of the floats around num / den units
Quantum(num, den, q) ==
    IF num < Pow2(MantBits) * q * den \/ q > Pow2(ExpRange) THEN q
    ELSE Quantum(num, den, 2 * q)

\* num / den rounded to the nearest integer, ties to even
RoundHalfEven(num, den) ==
    LET fl == num \div den
        r == num % den
    IN  IF 2 * r < den THEN fl
        ELSE IF 2 * r > den THEN fl + 1
        ELSE IF fl % 2 = 0 THEN fl ELSE fl + 1

\* the float nearest to num / den units (num >= 0, den > 0); inf on overflow
RoundUnits(num, den) ==
    LET q == Quantum(num, den, 1)
        u == RoundHalfEven(num, den * q) * q
    IN  IF u > MaxUnits THEN PyInf(1) ELSE PyFloat(u)

Abs(i) == IF i < 0 THEN -i ELSE i
Sgn(i) == IF i < 0 THEN -1 ELSE 1
Neg(v) == [v EXCEPT !.n = -v.n]
Signed(s, v) == IF s < 0 THEN Neg(v) ELSE v

\* float(i) for an int or bool; OverflowError when i is beyond the floats
ToFloat(v) ==
    IF v.t = "float" THEN v
    ELSE LET f == RoundUnits(Abs(v.n) * Scale, 1)
         IN  IF f.k = "inf" THEN Raises("OverflowError") ELSE Signed(v.n, f)

FloatMul(x, y) ==
    IF x.k = "nan" \/ y.k = "nan" THEN PyNaN
    ELSE IF x.k = "inf" \/ y.k = "inf"
         THEN IF x.n = 0 \/ y.n = 0 THEN PyNaN ELSE PyInf(Sgn(x.n) * Sgn(y.n))
    ELSE Signed(Sgn(x.n) * Sgn(y.n), RoundUnits(Abs(x.n) * Abs(y.n), Scale))

FloatAdd(x, y) ==
    IF x.k = "nan" \/ y.k = "nan" THEN PyNaN
    ELSE IF x.k = "inf" /\ y.k = "inf"
         THEN IF x.n = y.n THEN x ELSE PyNaN
    ELSE IF x.k = "inf" THEN x
    ELSE IF y.k = "inf" THEN y
    ELSE Signed(x.n + y.n, RoundUnits(Abs(x.n + y.n), 1))

FloatDiv(x, y) ==
    IF x.k = "nan" \/ y.k = "nan" THEN PyNaN
    ELSE IF y.k = "fin" /\ y.n = 0 THEN Raises("ZeroDivisionError")
    ELSE IF x.k = "inf"
         THEN IF y.k = "inf" THEN PyNaN ELSE PyInf(Sgn(x.n) * Sgn(y.n))
    ELSE IF y.k = "inf" THEN PyFloat(0)
    ELSE Signed(Sgn(x.n) * Sgn(y.n), RoundUnits(Abs(x.n) * Scale, Abs(y.n)))

\* x * y
PyMul(x, y) ==
    IF IsInstanceInt(x) /\ IsInstanceInt(y) THEN PyInt(x.n * y.n)
    ELSE LET fx == ToFloat(x)
             fy == ToFloat(y)
         IN  IF fx.t = "raise" THEN fx
             ELSE IF fy.t = "raise" THEN fy
             ELSE FloatMul(fx, fy)

\* x + y
PyAdd(x, y) ==
    IF IsInstanceInt(x) /\ IsInstanceInt(y) THEN PyInt(x.n + y.n)
    ELSE LET fx == ToFloat(x)
             fy == ToFloat(y)
         IN  IF fx.t = "raise" THEN fx
             ELSE IF fy.t = "raise" THEN fy
             ELSE FloatAdd(fx, fy)

\* x / y (true division: the result is always a float)
PyTrueDiv(x, y) ==
    IF IsInstanceInt(x) /\ IsInstanceInt(y)
    THEN IF y.n = 0 THEN Raises("ZeroDivisionError")
         ELSE LET f == RoundUnits(Abs(x.n) * Scale, Abs(y.n))
              IN  IF f.k = "inf" THEN Raises("OverflowError")
                  ELSE Signed(Sgn(x.n) * Sgn(y.n), f)
    ELSE LET fx == ToFloat(x)
             fy == ToFloat(y)
         IN  IF fx.t = "raise" THEN fx
             ELSE IF fy.t = "raise" THEN fy
             ELSE FloatDiv(fx, fy)

\* x == y on numbers
PyEq(x, y) ==
    /\ x.k = y.k
    /\ x.k \in {"fin", "inf"}
    /\ IF x.k = "fin" THEN Units(x) = Units(y) ELSE x.n = y.n


\* str(value), as an f-string field shows it: the int 2 and the str "2" read alike
PyStr(v) ==
    IF v.t \in {"int", "str"} THEN [form |-> "decimal", n |-> v.n]
    ELSE IF v.t = "float" THEN [form |-> "float-" \o v.k, n |-> v.n]
    ELSE [form |-> v.t, n |-> v.n]
Absent == [form |-> "absent", n |-> 0]

\* ------------------------------------------------------------- exceptions
NoErr == [kind |-> "none", text |-> "", name |-> "", value |-> Absent, tname |-> ""]
TypeKind == "TypeError"
RangeKind == "ValueError"

\* the exception an arithmetic operator raised
ArithError(r) == [kind |-> r.k, text |-> "", name |-> "", value |-> Absent, tname |-> ""]

\* mutant: the zero check is forgotten
validate_input_no_zero_check(value, name, allow_zero) ==
    IF ~IsInstanceIntFloat(value)
    THEN [kind |-> TypeKind,
          text |-> "Invalid type for '{name}'. Expected int or float, got {type(value).__name__}.",
          name |-> name, value |-> Absent, tname |-> value.t]
    ELSE IF LtZero(value)
    THEN [kind |-> RangeKind,
          text |-> "Invalid value for '{name}'. Value cannot be negative ({value}).",
          name |-> name, value |-> PyStr(value), tname |-> ""]
    ELSE [kind |-> "none", text |-> "", name |-> "", value |-> Absent, tname |-> ""]

\* mutant: the negative-value message leaves the value out
validate_input_no_value(value, name, allow_zero) ==
    IF ~IsInstanceIntFloat(value)
    THEN [kind |-> TypeKind,
          text |-> "Invalid type for '{name}'. Expected int or float, got {type(value).__name__}.",
          name |-> name, value |-> Absent, tname |-> value.t]
    ELSE IF LtZero(value)
    THEN [kind |-> RangeKind,
          text |-> "Invalid value for '{name}'. Value cannot be negative.",
          name |-> name, value |-> Absent, tname |-> ""]
    ELSE IF ~allow_zero /\ EqZero(value)
    THEN [kind |-> RangeKind,
          text |-> "Invalid value for '{name}'. Value cannot be zero (dividing by zero).",
          name |-> name, value |-> Absent, tname |-> ""]
    ELSE [kind |-> "none", text |-> "", name |-> "", value |-> Absent, tname |-> ""]

\* LittlesLaw._validate_input: the exception it raises, NoErr when it returns
validate_input(value, name, allow_zero) ==
    IF ~IsInstanceIntFloat(value)
    THEN [kind |-> TypeKind,
          text |-> "Invalid type for '{name}'. Expected int or float, got {type(value).__name__}.",
          name |-> name, value |-> Absent, tname |-> value.t]
    ELSE IF LtZero(value)
    THEN [kind |-> RangeKind,
          text |-> "Invalid value for '{name}'. Value cannot be negative ({value}).",
          name |-> name, value |-> PyStr(value), tname |-> ""]
    ELSE IF ~allow_zero /\ EqZero(value)
    THEN [kind |-> RangeKind,
          text |-> "Invalid value for '{name}'. Value cannot be zero (dividing by zero).",
          name |-> name, value |-> Absent, tname |-> ""]
    ELSE NoErr

\* mutant: the isinstance test is forgotten
BadMachineCount_no_type_check(number_of_machines) == LeZero(number_of_machines)

\* not isinstance(number_of_machines, int) or number_of_machines <= 0
BadMachineCount(number_of_machines) ==
    ~IsInstanceInt(number_of_machines) \/ LeZero(number_of_machines)

MachineCountError(number_of_machines) ==
    [kind |-> RangeKind,
     text |-> "Number of machines must be a positive integer. Got {number_of_machines}.",
     name |-> "", value |-> PyStr(number_of_machines), tname |-> ""]

TotalInventoryError ==
    [kind |-> RangeKind,
     text |-> "Total inventory (WIP + FGI) cannot be zero when calculating turns.",
     name |-> "", value |-> Absent, tname |-> ""]

\* utilization * 100
PCT == 100

\* the parameters of each public operation, in declaration order
Params ==
    [calculate_wip |-> <<"throughput", "cycle_time">>,
     calculate_cycle_time |-> <<"wip", "throughput">>,
     calculate_throughput |-> <<"wip", "cycle_time">>,
     calculate_station_utilization |->
         <<"station_throughput", "station_cycle_time", "number_of_machines">>,
     calculate_inventory_turns |-> <<"throughput", "wip", "fgi">>,
     calculate_planned_inventory |-> <<"throughput", "planned_days">>,
     financial_cycle_time |-> <<"wip_value", "cost_of_goods_sold">>]

\* ------------------------------------------------------------------ state
VARIABLES
    pc,               \* "idle", the line that runs next, "returned" or "raised"
    op,               \* the operation being called
    args,             \* its arguments, in declaration order
    station_wip,      \* locals of calculate_station_utilization
    utilization,
    total_inventory,  \* local of calculate_inventory_turns
    ret,              \* the value returned
    err,              \* the exception raised
    validated,        \* the _validate_input calls made by this call, in order
    arith,            \* the arithmetic steps executed by this call, in order
    prev              \* a finished calculate_wip call whose result the caller kept

vars == <<pc, op, args, station_wip, utilization, total_inventory, ret, err,
          validated, arith, prev>>

NoPrev == [throughput |-> Undef, cycle_time |-> Undef, wip |-> Undef]

Init ==
    /\ pc = "idle"
    /\ op = "none"
    /\ args = <<>>
    /\ station_wip = Undef
    /\ utilization = Undef
    /\ total_inventory = Undef
    /\ ret = Undef
    /\ err = NoErr
    /\ validated = <<>>
    /\ arith = <<>>
    /\ prev = NoPrev

\* no call is running and the caller holds no earlier result
Idle == pc = "idle" /\ prev = NoPrev

\* a caller invokes operation o with arguments a; the body starts at line first
Call(o, a, first) ==
    /\ pc' = first
    /\ op' = o
    /\ args' = a
    /\ UNCHANGED <<station_wip, utilization, total_inventory, ret, err,
                   validated, arith, prev>>

\* LittlesLaw._validate_input(args[i], name, allow_zero=allow_zero) at line at
ValidateStep(o, at, i, name, allow_zero, next) ==
    /\ op = o
    /\ pc = at
    /\ validated' = Append(validated, [name |-> name, allow_zero |-> allow_zero,
                                        value |-> args[i]])
    /\ LET e == validate_input(args[i], name, allow_zero)
       IN  IF e = NoErr
           THEN pc' = next /\ err' = err
           ELSE pc' = "raised" /\ err' = e
    /\ UNCHANGED <<op, args, station_wip, utilization, total_inventory, ret,
                   arith, prev>>

\* the record of one arithmetic step: operator, operands, parameters it reads
Step(f, x, y, uses) == [f |-> f, x |-> x, y |-> y, uses |-> uses]

\* return r at line at, r being computed by the arithmetic step s
ReturnStep(o, at, r, s) ==
    /\ op = o
    /\ pc = at
    /\ arith' = Append(arith, s)
    /\ IF r.t = "raise"
       THEN pc' = "raised" /\ err' = ArithError(r) /\ ret' = ret
       ELSE pc' = "returned" /\ ret' = r /\ err' = err
    /\ UNCHANGED <<op, args, station_wip, utilization, total_inventory,
                   validated, prev>>

\* -------------------------------------------------------- calculate_wip
Call_calculate_wip ==
    /\ Idle
    /\ \E throughput, cycle_time \in Values :
        Call("calculate_wip", <<throughput, cycle_time>>, "L32")
wip_L32 == ValidateStep("calculate_wip", "L32", 1, "throughput", TRUE, "L33")
wip_L33 == ValidateStep("calculate_wip", "L33", 2, "cycle_time", TRUE, "L35")
wip_L35 ==
    ReturnStep("calculate_wip", "L35", PyMul(args[1], args[2]),
               Step("mul", args[1], args[2], {"throughput", "cycle_time"}))

\* ------------------------------------------------- calculate_cycle_time
Call_calculate_cycle_time ==
    /\ Idle
    /\ \E wip, throughput \in Values :
        Call("calculate_cycle_time", <<wip, throughput>>, "L43")
ct_L43 == ValidateStep("calculate_cycle_time", "L43", 1, "wip", TRUE, "L45")
\* mutant: the divisor is validated with zero allowed
ct_L45_allows_zero ==
    ValidateStep("calculate_cycle_time", "L45", 2, "throughput", TRUE, "L47")
ct_L45 == ValidateStep("calculate_cycle_time", "L45", 2, "throughput", FALSE, "L47")
\* mutant: the operands of the division are swapped
ct_L47_swapped ==
    ReturnStep("calculate_cycle_time", "L47", PyTrueDiv(args[2], args[1]),
               Step("div", args[2], args[1], {"wip", "throughput"}))
ct_L47 ==
    ReturnStep("calculate_cycle_time", "L47", PyTrueDiv(args[1], args[2]),
               Step("div", args[1], args[2], {"wip", "throughput"}))

\* ------------------------------------------------- calculate_throughput
Call_calculate_throughput ==
    /\ Idle
    /\ \E wip, cycle_time \in Values :
        Call("calculate_throughput", <<wip, cycle_time>>, "L55")
th_L55 == ValidateStep("calculate_throughput", "L55", 1, "wip", TRUE, "L57")
th_L57 == ValidateStep("calculate_throughput", "L57", 2, "cycle_time", FALSE, "L59")
th_L59 ==
    ReturnStep("calculate_throughput", "L59", PyTrueDiv(args[1], args[2]),
               Step("div", args[1], args[2], {"wip", "cycle_time"}))

\* ------------------------------------------ calculate_planned_inventory
Call_calculate_planned_inventory ==
    /\ Idle
    /\ \E throughput, planned_days \in Values :
        Call("calculate_planned_inventory", <<throughput, planned_days>>, "L113")
pi_L113 == ValidateStep("calculate_planned_inventory", "L113", 1, "throughput", TRUE, "L114")
pi_L114 == ValidateStep("calculate_planned_inventory", "L114", 2, "planned_days", TRUE, "L116")
pi_L116 ==
    ReturnStep("calculate_planned_inventory", "L116", PyMul(args[2], args[1]),
               Step("mul", args[2], args[1], {"throughput", "planned_days"}))

\* ------------------------------------------------- financial_cycle_time
Call_financial_cycle_time ==
    /\ Idle
    /\ \E wip_value, cost_of_goods_sold \in Values :
        Call("financial_cycle_time", <<wip_value, cost_of_goods_sold>>, "L124")
fc_L124 == ValidateStep("financial_cycle_time", "L124", 1, "wip_value", TRUE, "L125")
\* mutant: the divisor is validated with zero allowed
fc_L125_allows_zero ==
    ValidateStep("financial_cycle_time", "L125", 2, "cost_of_goods_sold", TRUE, "L127")
fc_L125 ==
    ValidateStep("financial_cycle_time", "L125", 2, "cost_of_goods_sold", FALSE, "L127")
fc_L127 ==
    ReturnStep("financial_cycle_time", "L127", PyTrueDiv(args[1], args[2]),
               Step("div", args[1], args[2], {"wip_value", "cost_of_goods_sold"}))

\* ---------------------------------------- calculate_station_utilization
Call_calculate_station_utilization ==
    /\ Idle
    /\ \E station_throughput, station_cycle_time, number_of_machines \in Values :
        Call("calculate_station_utilization",
             <<station_throughput, station_cycle_time, number_of_machines>>, "L67")
\* mutant: the validation of station_cycle_time is skipped
su_L67_skips_cycle_time ==
    ValidateStep("calculate_station_utilization", "L67", 1, "station_throughput", TRUE, "L70")
su_L67 ==
    ValidateStep("calculate_station_utilization", "L67", 1, "station_throughput", TRUE, "L68")
su_L68 ==
    ValidateStep("calculate_station_utilization", "L68", 2, "station_cycle_time", TRUE, "L70")
\* mutant: station_wip is computed before the machine count is checked
su_L70_after_product ==
    /\ op = "calculate_station_utilization"
    /\ pc = "L70"
    /\ arith' = Append(arith, Step("mul", args[1], args[2],
                                   {"station_throughput", "station_cycle_time"}))
    /\ station_wip' = PyMul(args[1], args[2])
    /\ IF BadMachineCount(args[3])
       THEN pc' = "raised" /\ err' = MachineCountError(args[3])
       ELSE pc' = "L77" /\ err' = err
    /\ UNCHANGED <<op, args, utilization, total_inventory, ret, validated, prev>>
\* if not isinstance(number_of_machines, int) or number_of_machines <= 0: raise
su_L70 ==
    /\ op = "calculate_station_utilization"
    /\ pc = "L70"
    /\ IF BadMachineCount(args[3])
       THEN pc' = "raised" /\ err' = MachineCountError(args[3])
       ELSE pc' = "L74" /\ err' = err
    /\ UNCHANGED <<op, args, station_wip, utilization, total_inventory, ret,
                   validated, arith, prev>>
\* station_wip = station_throughput * station_cycle_time
su_L74 ==
    /\ op = "calculate_station_utilization"
    /\ pc = "L74"
    /\ arith' = Append(arith, Step("mul", args[1], args[2],
                                   {"station_throughput", "station_cycle_time"}))
    /\ LET r == PyMul(args[1], args[2])
       IN  IF r.t = "raise"
           THEN pc' = "raised" /\ err' = ArithError(r) /\ station_wip' = station_wip
           ELSE pc' = "L77" /\ station_wip' = r /\ err' = err
    /\ UNCHANGED <<op, args, utilization, total_inventory, ret, validated, prev>>
\* utilization = station_wip / number_of_machines
su_L77 ==
    /\ op = "calculate_station_utilization"
    /\ pc = "L77"
    /\ arith' = Append(arith, Step("div", station_wip, args[3], {"number_of_machines"}))
    /\ LET r == PyTrueDiv(station_wip, args[3])
       IN  IF r.t = "raise"
           THEN pc' = "raised" /\ err' = ArithError(r) /\ utilization' = utilization
           ELSE pc' = "L79" /\ utilization' = r /\ err' = err
    /\ UNCHANGED <<op, args, station_wip, total_inventory, ret, validated, prev>>
\* mutant: a utilization above 1.0 is refused
su_L79_rejects_overload ==
    /\ op = "calculate_station_utilization"
    /\ pc = "L79"
    /\ IF GtOne(utilization)
       THEN pc' = "raised" /\ err' = MachineCountError(utilization)
       ELSE pc' = "L84" /\ err' = err
    /\ UNCHANGED <<op, args, station_wip, utilization, total_inventory, ret,
                   validated, arith, prev>>
\* if utilization > 1.0: pass
su_L79 ==
    /\ op = "calculate_station_utilization"
    /\ pc = "L79"
    /\ pc' = IF GtOne(utilization) THEN "L84" ELSE "L84"
    /\ UNCHANGED <<op, args, station_wip, utilization, total_inventory, ret, err,
                   validated, arith, prev>>
\* return {"station_wip": ..., "utilization": ..., "utilization_pct": utilization * 100}
su_L84 ==
    /\ op = "calculate_station_utilization"
    /\ pc = "L84"
    /\ arith' = Append(arith, Step("mul", utilization, PyInt(PCT), {}))
    /\ LET r == PyMul(utilization, PyInt(PCT))
       IN  IF r.t = "raise"
           THEN pc' = "raised" /\ err' = ArithError(r) /\ ret' = ret
           ELSE /\ pc' = "returned"
                /\ ret' = [t |-> "dict", k |-> "obj", n |-> 0,
                           station_wip |-> station_wip,
                           utilization |-> utilization,
                           utilization_pct |-> r]
                /\ err' = err
    /\ UNCHANGED <<op, args, station_wip, utilization, total_inventory,
                   validated, prev>>

\* -------------------------------------------- calculate_inventory_turns
Call_calculate_inventory_turns ==
    /\ Idle
    /\ \E throughput, wip, fgi \in Values :
        Call("calculate_inventory_turns", <<throughput, wip, fgi>>, "L96")
\* fgi=0 when the caller passes two arguments
Call_calculate_inventory_turns_default ==
    /\ Idle
    /\ \E throughput, wip \in Values :
        Call("calculate_inventory_turns", <<throughput, wip, PyInt(0)>>, "L96")
it_L96 == ValidateStep("calculate_inventory_turns", "L96", 1, "throughput", TRUE, "L97")
it_L97 == ValidateStep("calculate_inventory_turns", "L97", 2, "wip", TRUE, "L98")
it_L98 == ValidateStep("calculate_inventory_turns", "L98", 3, "fgi", TRUE, "L100")
\* total_inventory = wip + fgi
it_L100 ==
    /\ op = "calculate_inventory_turns"
    /\ pc = "L100"
    /\ arith' = Append(arith, Step("add", args[2], args[3], {"wip", "fgi"}))
    /\ LET r == PyAdd(args[2], args[3])
       IN  IF r.t = "raise"
           THEN pc' = "raised" /\ err' = ArithError(r)
                /\ total_inventory' = total_inventory
           ELSE pc' = "L102" /\ total_inventory' = r /\ err' = err
    /\ UNCHANGED <<op, args, station_wip, utilization, ret, validated, prev>>
\* mutant: the divisor check is made on wip alone
it_L102_checks_wip_only ==
    /\ op = "calculate_inventory_turns"
    /\ pc = "L102"
    /\ IF EqZero(args[2])
       THEN pc' = "raised" /\ err' = TotalInventoryError
       ELSE pc' = "L105" /\ err' = err
    /\ UNCHANGED <<op, args, station_wip, utilization, total_inventory, ret,
                   validated, arith, prev>>
\* if total_inventory == 0: raise
it_L102 ==
    /\ op = "calculate_inventory_turns"
    /\ pc = "L102"
    /\ IF EqZero(total_inventory)
       THEN pc' = "raised" /\ err' = TotalInventoryError
       ELSE pc' = "L105" /\ err' = err
    /\ UNCHANGED <<op, args, station_wip, utilization, total_inventory, ret,
                   validated, arith, prev>>
it_L105 ==
    ReturnStep("calculate_inventory_turns", "L105", PyTrueDiv(args[1], total_inventory),
               Step("div", args[1], total_inventory, {"throughput"}))

\* ------------------------------------------------------------ the caller
\* the call is over and nothing of it is kept: every call is independent
Done ==
    /\ pc \in {"returned", "raised"}
    /\ pc' = "idle"
    /\ op' = "none"
    /\ args' = <<>>
    /\ station_wip' = Undef
    /\ utilization' = Undef
    /\ total_inventory' = Undef
    /\ ret' = Undef
    /\ err' = NoErr
    /\ validated' = <<>>
    /\ arith' = <<>>
    /\ prev' = NoPrev

\* the caller keeps the WIP that calculate_wip(throughput, cycle_time) returned
KeepWip ==
    /\ pc = "returned"
    /\ op = "calculate_wip"
    /\ pc' = "idle"
    /\ op' = "none"
    /\ args' = <<>>
    /\ ret' = Undef
    /\ validated' = <<>>
    /\ arith' = <<>>
    /\ prev' = [throughput |-> args[1], cycle_time |-> args[2], wip |-> ret]
    /\ UNCHANGED <<station_wip, utilization, total_inventory, err>>

\* and passes it on: calculate_cycle_time(calculate_wip(throughput, cycle_time), throughput)
Call_round_trip ==
    /\ pc = "idle"
    /\ prev # NoPrev
    /\ pc' = "L43"
    /\ op' = "calculate_cycle_time"
    /\ args' = <<prev.wip, prev.throughput>>
    /\ UNCHANGED <<station_wip, utilization, total_inventory, ret, err,
                   validated, arith, prev>>

Next ==
    \/ Call_calculate_wip \/ wip_L32 \/ wip_L33 \/ wip_L35
    \/ Call_calculate_cycle_time \/ ct_L43 \/ ct_L45 \/ ct_L47
    \/ Call_calculate_throughput \/ th_L55 \/ th_L57 \/ th_L59
    \/ Call_calculate_station_utilization
    \/ su_L67 \/ su_L68 \/ su_L70 \/ su_L74 \/ su_L77 \/ su_L79 \/ su_L84
    \/ Call_calculate_inventory_turns \/ Call_calculate_inventory_turns_default
    \/ it_L96 \/ it_L97 \/ it_L98 \/ it_L100 \/ it_L102 \/ it_L105
    \/ Call_calculate_planned_inventory \/ pi_L113 \/ pi_L114 \/ pi_L116
    \/ Call_financial_cycle_time \/ fc_L124 \/ fc_L125 \/ fc_L127
    \/ Done \/ KeepWip \/ Call_round_trip

Spec == Init /\ [][Next]_vars

\* ======================================================================
\* Vocabulary of the claims
\* ======================================================================
\* a value of a numeric type (an int, bool being a subtype of int, or a float)
Numeric(v) == v.t \in {"int", "bool", "float"}
Negative(v) == Numeric(v) /\ v.k \in {"fin", "inf"} /\ v.n < 0
Zero(v) == Numeric(v) /\ v.k = "fin" /\ v.n = 0
Positive(v) == Numeric(v) /\ v.k \in {"fin", "inf"} /\ v.n > 0
NonNegative(v) == Zero(v) \/ Positive(v)
\* an integer >= 1
MachineCount(v) == v.t \in {"int", "bool"} /\ v.n >= 1
Terminal == pc \in {"returned", "raised"}
FailsWith(kind) == pc = "raised" /\ err.kind = kind
DivisionOps == {"calculate_cycle_time", "calculate_throughput", "financial_cycle_time"}
LastValidated == validated[Len(validated)]

\* C1: every call validate(value, name, allowZero) fails with TypeKind when value
\* is not numeric, with RangeKind when value is numeric and negative, with
\* RangeKind when allowZero is false and value is zero, and otherwise returns
\* without an error, a result or a change to the caller's arguments and locals.
C1_ValidateContract ==
    [][Len(validated') = Len(validated) + 1 =>
         LET c == validated'[Len(validated')]
         IN  /\ ~Numeric(c.value) => (pc' = "raised" /\ err'.kind = TypeKind)
             /\ Negative(c.value) => (pc' = "raised" /\ err'.kind = RangeKind)
             /\ (~c.allow_zero /\ Zero(c.value)) =>
                    (pc' = "raised" /\ err'.kind = RangeKind)
             /\ (Numeric(c.value) /\ ~Negative(c.value)
                   /\ (c.allow_zero \/ ~Zero(c.value))) =>
                    /\ pc' \notin {"raised", "returned", "idle"}
                    /\ err' = NoErr
                    /\ UNCHANGED <<op, args, station_wip, utilization,
                                   total_inventory, ret, arith>>]_vars

\* a zero passed validation where zero is allowed, and the next parameter, a
\* zero where zero is forbidden, failed with RangeKind
C1_Witness ==
    /\ pc = "raised"
    /\ Len(validated) = 2
    /\ validated[1].allow_zero /\ Zero(validated[1].value)
    /\ ~validated[2].allow_zero /\ Zero(validated[2].value)
    /\ err.kind = RangeKind

C4_MachineCount ==
    (op = "calculate_station_utilization" /\ Terminal
       /\ NonNegative(args[1]) /\ NonNegative(args[2])) =>
        /\ ~MachineCount(args[3]) => FailsWith(RangeKind)
        /\ pc = "returned" => MachineCount(args[3])

\* a positive float that is not an integer was refused as machine count
C4_Witness ==
    /\ op = "calculate_station_utilization"
    /\ FailsWith(RangeKind)
    /\ NonNegative(args[1]) /\ NonNegative(args[2])
    /\ args[3].t = "float" /\ args[3].k = "fin"
    /\ args[3].n > 0 /\ args[3].n % Scale # 0

RoundTripOver ==
    /\ prev # NoPrev
    /\ op = "calculate_cycle_time"
    /\ Terminal
    /\ Positive(prev.throughput) /\ Positive(prev.cycle_time)

\* calculate_wip was called with throughput > 0 and cycle_time > 0 and is over
WipOver ==
    /\ op = "calculate_wip"
    /\ Terminal
    /\ Positive(args[1]) /\ Positive(args[2])

\* the product is a finite float or int that is not below the smallest normal float
InNormalRange(v) == v.k = "fin" /\ Units(v) >= MinNormalUnits

\* |x - y| <= y / 2^(MantBits - 2): equal within four units of roundoff
WithinTolerance(x, y) ==
    /\ x.k = "fin" /\ y.k = "fin"
    /\ Abs(Units(x) - Units(y)) * Pow2(MantBits - 2) <= Units(y)

\* C6 as stated: for throughput > 0 and cycle_time > 0, calculate_wip returns
\* throughput * cycle_time and the round trip through calculate_cycle_time
\* returns a value equal to cycle_time.
C6_RoundTripExact ==
    /\ WipOver => (pc = "returned" /\ ret = PyMul(args[1], args[2]))
    /\ RoundTripOver => (pc = "returned" /\ PyEq(ret, prev.cycle_time))

\* C6 amended: calculate_wip returns throughput * cycle_time and the round trip
\* returns; what it returns equals cycle_time within floating-point tolerance
\* when the product is finite and not below the smallest normal float.
C6_RoundTripTolerance ==
    /\ WipOver => (pc = "returned" /\ ret = PyMul(args[1], args[2]))
    /\ RoundTripOver =>
         /\ pc = "returned"
         /\ InNormalRange(prev.wip) => WithinTolerance(ret, prev.cycle_time)

\* a round trip whose product was rounded came back within the tolerance but
\* not equal to cycle_time
C6_Witness ==
    /\ RoundTripOver
    /\ pc = "returned"
    /\ InNormalRange(prev.wip)
    /\ WithinTolerance(ret, prev.cycle_time)
    /\ ~PyEq(ret, prev.cycle_time)

\* the call failed with one of the two error kinds of the library
Failed == pc = "raised" /\ err.kind \in {TypeKind, RangeKind}
\* the exception was raised by _validate_input, for the parameter it checked last
RaisedByValidator == Failed /\ Len(validated) > 0 /\ err.name = LastValidated.name
ParamNames(o) == {Params[o][i] : i \in 1..Len(Params[o])}

\* C7 as stated: every error carries the name of the invalid parameter, and every
\* RangeKind error carries the offending value as well.
C7_ErrorsCarryNameAndValue ==
    Failed =>
        /\ err.name \in ParamNames(op)
        /\ err.kind = RangeKind => err.value # Absent

\* C7 amended: every error raised by the validator carries the name of the
\* parameter it checked; the TypeKind error carries the type observed, the
\* negative-value error carries the offending value, the zero-divisor error
\* carries the name only; the machine-count error carries the offending value
\* and no parameter name; the combined wip + fgi error carries neither.
C7_ErrorContents ==
    Failed =>
        \/ /\ RaisedByValidator
           /\ err.name \in ParamNames(op)
           /\ \/ /\ err.kind = TypeKind
                 /\ ~Numeric(LastValidated.value)
                 /\ err.tname = LastValidated.value.t
                 /\ err.value = Absent
              \/ /\ err.kind = RangeKind
                 /\ Negative(LastValidated.value)
                 /\ err.value = PyStr(LastValidated.value)
              \/ /\ err.kind = RangeKind
                 /\ Zero(LastValidated.value) /\ ~LastValidated.allow_zero
                 /\ err.value = Absent
        \/ /\ op = "calculate_station_utilization"
           /\ Len(validated) = 2
           /\ ~MachineCount(args[3])
           /\ err.kind = RangeKind
           /\ err.name = ""
           /\ err.value = PyStr(args[3])
        \/ /\ op = "calculate_inventory_turns"
           /\ Len(validated) = 3
           /\ Zero(args[2]) /\ Zero(args[3])
           /\ err.kind = RangeKind
           /\ err.name = ""
           /\ err.value = Absent

\* the combined wip + fgi error was raised: it names no parameter and no value
C7_Witness ==
    /\ Failed
    /\ op = "calculate_inventory_turns"
    /\ Len(validated) = 3
    /\ err.name = "" /\ err.value = Absent

\* C8 as stated: a call that ends in TypeKind or RangeKind has executed no
\* arithmetic step on its arguments and produced no result.
C8_NoArithmeticBeforeFailure ==
    Failed => (arith = <<>> /\ ret = Undef)

NoDuplicates(seq) == \A i, j \in 1..Len(seq) : seq[i].name = seq[j].name => i = j

\* C8 amended: a call that ends in TypeKind or RangeKind has executed no product
\* and no quotient and produced no result; the only arithmetic that precedes a
\* failure is the sum wip + fgi, before the combined-divisor failure of
\* calculate_inventory_turns. No parameter is validated twice and the arguments
\* are the caller's.
C8_ValidationPrecedesComputation ==
    /\ Failed =>
         /\ ret = Undef
         /\ station_wip = Undef /\ utilization = Undef
         /\ \/ arith = <<>> /\ total_inventory = Undef
            \/ /\ op = "calculate_inventory_turns"
               /\ Len(validated) = 3
               /\ arith = <<Step("add", args[2], args[3], {"wip", "fgi"})>>
               /\ Zero(total_inventory)
    /\ NoDuplicates(validated)
    /\ \A i \in 1..Len(validated) :
           \E j \in 1..Len(args) : validated[i].value = args[j]

\* the machine-count failure of calculate_station_utilization: both quantities
\* validated, nothing computed
C8_Witness ==
    /\ Failed
    /\ op = "calculate_station_utilization"
    /\ Len(validated) = 2
    /\ arith = <<>>

\* the parameters that are used alone as a divisor after going through the validator
ValidatedDivisors ==
    {<<"calculate_cycle_time", "throughput">>,
     <<"calculate_throughput", "cycle_time">>,
     <<"financial_cycle_time", "cost_of_goods_sold">>}
IsMachineParam(o, i) == o = "calculate_station_utilization" /\ i = 3

\* argument i of the running call is invalid on its own
InvalidArg(i) ==
    IF IsMachineParam(op, i) THEN ~MachineCount(args[i])
    ELSE \/ ~Numeric(args[i])
         \/ Negative(args[i])
         \/ <<op, Params[op][i]>> \in ValidatedDivisors /\ Zero(args[i])
SomeInvalid == \E i \in 1..Len(args) : InvalidArg(i)
FirstInvalid ==
    CHOOSE i \in 1..Len(args) : InvalidArg(i) /\ \A j \in 1..(i - 1) : ~InvalidArg(j)
ValidatedNames == {validated[j].name : j \in 1..Len(validated)}

\* C9 as stated: every numeric parameter goes through the validator before it is
\* used, allow_zero is false for exactly the four divisor parameters
\* (number_of_machines among them), and so a non-numeric argument (the first
\* invalid one of its call) yields TypeKind.
C9_ValidatorOnEveryParameter ==
    /\ \A i \in 1..Len(arith) : arith[i].uses \subseteq ValidatedNames
    /\ \A j \in 1..Len(validated) :
           ~validated[j].allow_zero <=>
               <<op, validated[j].name>> \in
                   ValidatedDivisors \cup
                       {<<"calculate_station_utilization", "number_of_machines">>}
    /\ pc = "returned" => ValidatedNames = ParamNames(op)
    /\ (Terminal /\ SomeInvalid /\ ~Numeric(args[FirstInvalid])) => FailsWith(TypeKind)

\* C9 amended: every parameter except number_of_machines goes through the
\* validator before any arithmetic, allow_zero is false for exactly throughput of
\* calculate_cycle_time, cycle_time of calculate_throughput and
\* cost_of_goods_sold of financial_cycle_time; number_of_machines never goes
\* through the validator and a non-numeric one yields RangeKind; a non-numeric
\* argument in any other position (the first invalid one) yields TypeKind.
C9_ValidatorOnQuantities ==
    /\ arith # <<>> => ValidatedNames = ParamNames(op) \ {"number_of_machines"}
    /\ \A i \in 1..Len(arith) :
           arith[i].uses \ {"number_of_machines"} \subseteq ValidatedNames
    /\ "number_of_machines" \notin ValidatedNames
    /\ \A j \in 1..Len(validated) :
           ~validated[j].allow_zero <=> <<op, validated[j].name>> \in ValidatedDivisors
    /\ (Terminal /\ SomeInvalid /\ ~Numeric(args[FirstInvalid])) =>
           IF IsMachineParam(op, FirstInvalid)
           THEN FailsWith(RangeKind)
           ELSE FailsWith(TypeKind)

\* a non-numeric number_of_machines after two valid quantities ended in RangeKind
C9_Witness ==
    /\ op = "calculate_station_utilization"
    /\ FailsWith(RangeKind)
    /\ Len(validated) = 2
    /\ ~Numeric(args[3])

\* C10: when an argument is invalid on its own, the call fails with the error of
\* the first such argument in declaration order (TypeKind if it is not numeric,
\* RangeKind otherwise), parameters are examined in declaration order and none
\* after the failing one is examined; the combined wip + fgi error is raised only
\* when no argument is invalid on its own.
C10_FirstInvalidWins ==
    /\ \A j \in 1..Len(validated) :
           validated[j].name = Params[op][j] /\ validated[j].value = args[j]
    /\ (Terminal /\ SomeInvalid) =>
         /\ pc = "raised"
         /\ IF IsMachineParam(op, FirstInvalid)
            THEN /\ err = MachineCountError(args[3])
                 /\ Len(validated) = 2
            ELSE /\ err.name = Params[op][FirstInvalid]
                 /\ err.kind = IF Numeric(args[FirstInvalid]) THEN RangeKind ELSE TypeKind
                 /\ Len(validated) = FirstInvalid
    /\ (pc = "raised" /\ err = TotalInventoryError) => ~SomeInvalid

\* calculate_cycle_time with a non-numeric wip and a zero throughput failed with
\* TypeKind for wip, throughput not examined
C10_Witness ==
    /\ op = "calculate_cycle_time"
    /\ pc = "raised"
    /\ ~Numeric(args[1]) /\ Zero(args[2])
    /\ err.kind = TypeKind /\ err.name = "wip"
    /\ Len(validated) = 1

====
